---- MODULE Spec2Model ----
(***************************************************************************)
(* DahuaClient (custom_components/dahua/client.py): the event-stream       *)
(* subscription stream_events, the one-off fetches get and get_bytes, and  *)
(* the DigestAuth request they delegate to.                                *)
(*                                                                         *)
(* Every coroutine is modelled at the granularity of its await points: an  *)
(* action is one resumption of the coroutine, run to its next await or to  *)
(* its exit, the except/finally clauses it passes through included.        *)
(***************************************************************************)
EXTENDS Integers, Sequences, FiniteSets, TLC

\* ------------------------------------------------------------------ bounds
\* calls each task may start on the one client instance
MaxCalls == 2
\* chunks the camera pushes on one subscription
MaxChunks == 2
\* HTTP exchanges one Authenticator request may perform before the model stops it
MaxExchanges == 3
\* the longest generated body text given to parse_dahua_api_response
MaxTextLen == 4
\* the longest list of event codes given to stream_events
MaxEvents == 2
\* subtype indices run over -MaxSubtype..MaxSubtype
MaxSubtype == 2

\* ------------------------------------------------------------- vocabulary
Tasks == {"stream", "oneoff"}

\* final statuses the camera may answer with
Statuses == {200, 300, 401, 500}

\* items iter_chunks() may yield: (data, end_of_http_chunk); one chunk that
\* ends an HTTP chunk and one that is a part of one
Chunks == {<<"a", TRUE>>, <<"b", FALSE>>}

\* Exception subclasses that can be raised at an await of the client:
\* aiohttp.ClientError, aiohttp.ClientResponseError (a ClientError),
\* socket.gaierror, KeyError, TypeError, the Authenticator's ProtocolError,
\* and any other Exception subclass (a decode error, for one).
TransportErrors == {"ClientError", "gaierror"}
ParseErrors == {"KeyError", "TypeError"}
ExceptionClasses ==
    TransportErrors \cup ParseErrors
        \cup {"ClientResponseError", "ProtocolError", "TimeoutError", "OtherError"}

\* asyncio.CancelledError derives from BaseException, not from Exception
BaseOnly == {"CancelledError"}

\* characters of a response body, and the bodies the camera may send
NL == "\n"
CR == "\r"
Bodies ==
    { <<>>,
      <<"O", "K">>,
      <<"o", "k">>,
      <<"O", "k">>,
      <<"k", "=", "v", NL, "E", "r", "r">> }

NoResponse == [set |-> FALSE, status |-> 0]
Response(st) == [set |-> TRUE, status |-> st]

VARIABLES
    creds,      \* self._username and self._password are both not None
    calls,      \* calls started so far, per task
    \* --- DigestAuth instance of the running call, per task
    anc,        \* its nonce-count counter
    ahist,      \* exchanges of the running request: TRUE = sent with Authorization
    areply,     \* statuses of the replies the camera gave to those exchanges
    ncLog,      \* nonce-counts sent to the camera, in the order they were sent
    achal,      \* nonce of the challenge the instance holds (NoNonce if none)
    ahdr,       \* nonce its latest Authorization header was built from
    \* --- stream_events
    spc,        \* "idle", "probe", "reissue", "reading", "handling", "done"
    sreqs,      \* auth.request calls made by the running stream_events call
    sresp,      \* the local variable response
    sclosed,    \* response.close() calls made by the running call
    srv,        \* the camera's side of the stream: "none", "open", "eof", "error"
    wire,       \* chunks pushed by the camera and not yet read
    delivered,  \* items iter_chunks() has yielded, in order
    handled,    \* arguments on_receive was invoked with, in order
    sexc,       \* exception raised inside the try block ("none" if none)
    sphase,     \* where it was raised: "establish", "read", "handler"
    soutcome,   \* how the call left: "none", "return", or the exception type
    \* --- get / get_bytes
    okind,      \* the running one-off call: "none", "get", "get_bytes", or
                \* "set" for a set-configuration operation, which awaits get
    opc,        \* "idle", "probe", "reissue", "body", "done"
    oresp,      \* the local variable response
    oclosed,    \* response.close() calls made by the running call
    oexc,       \* exception raised inside the try block ("none" if none)
    oraised,    \* exception that reached the caller ("none" if none)
    oret,       \* the value returned to the caller (Pending until it returns)
    ofetch,     \* the value get or get_bytes itself returned
    obody,      \* the body text that was read (<<>> if none was)
    \* --- the static helpers, applied to one argument
    fname,      \* the helper: "none", "parse", "url", "to_subtype", "to_stream_name"
    farg,       \* its argument
    fstage,     \* "input", "applied", "back"
    fres,       \* its result, once applied
    fback,      \* to_stream_name of the result of to_subtype, once applied
    \* --- enable_motion_detection
    motion      \* the call: its position, argument, the URLs it gave to get in
                \* order, what each get returned, and how the call ended

authVars == <<anc, ahist, areply, ncLog, achal, ahdr>>
streamVars == <<spc, sreqs, sresp, sclosed, srv, wire, delivered, handled,
                sexc, sphase, soutcome>>
oneoffVars == <<okind, opc, oresp, oclosed, oexc, oraised, oret, ofetch, obody>>
funVars == <<fname, farg, fstage, fres, fback>>
clientVars == <<creds, calls, authVars, streamVars, oneoffVars>>
vars == <<clientVars, funVars, motion>>

\* ------------------------------------------------- Digest Authenticator
\* replies the camera may give to the unauthenticated probe
ProbeReplies == [status : Statuses, wellFormed : BOOLEAN, qop : BOOLEAN]

\* request(), steps 2 and 3: what the Authenticator does with the probe's reply
AuthDecide(reply) ==
    IF reply.status # 401 THEN "return"
    ELSE IF ~reply.wellFormed THEN "ProtocolError"
    ELSE "reissue"

\* variant: a second 401 is answered with another authenticated attempt
AuthAfterReissue_Retry(status) == IF status = 401 THEN "retry" ELSE "return"

\* request(), steps 5 and 6: what it does with the reply to the re-issued request
AuthAfterReissue(status) == "return"

\* the camera issues a new nonce with every challenge: the nonce of the
\* challenge it gives to the running call of task t
NoNonce == <<"none", 0>>
FreshNonce(t) == <<t, calls[t]>>

\* variant: one DigestAuth is kept for the client's lifetime and answers the
\* challenge it holds from the previous call without probing first
AuthBegin_Cached(t) ==
    IF achal[t] = NoNonce
    THEN /\ anc' = [anc EXCEPT ![t] = 0]
         /\ ahist' = [ahist EXCEPT ![t] = <<FALSE>>]
         /\ areply' = [areply EXCEPT ![t] = <<>>]
         /\ UNCHANGED <<ncLog, achal, ahdr>>
    ELSE /\ anc' = [anc EXCEPT ![t] = @ + 1]
         /\ ahist' = [ahist EXCEPT ![t] = <<TRUE>>]
         /\ areply' = [areply EXCEPT ![t] = <<>>]
         /\ ncLog' = Append(ncLog, anc[t] + 1)
         /\ ahdr' = [ahdr EXCEPT ![t] = achal[t]]
         /\ UNCHANGED achal

\* construction of a DigestAuth and step 1 of request(): the probe is sent
\* with no Authorization header
AuthBegin(t) ==
    /\ anc' = [anc EXCEPT ![t] = 0]
    /\ ahist' = [ahist EXCEPT ![t] = <<FALSE>>]
    /\ areply' = [areply EXCEPT ![t] = <<>>]
    /\ achal' = [achal EXCEPT ![t] = NoNonce]
    /\ ahdr' = [ahdr EXCEPT ![t] = NoNonce]
    /\ UNCHANGED ncLog

\* steps 4 and 5: the nonce-count is incremented when the challenge carries a
\* qop, and the request is sent again with the Authorization header
AuthReissue(t, status, qop) ==
    /\ anc' = [anc EXCEPT ![t] = IF qop THEN @ + 1 ELSE @]
    /\ ahist' = [ahist EXCEPT ![t] = Append(@, TRUE)]
    /\ areply' = [areply EXCEPT ![t] = Append(@, status)]
    /\ ncLog' = IF qop THEN Append(ncLog, anc[t] + 1) ELSE ncLog
    /\ achal' = [achal EXCEPT ![t] = FreshNonce(t)]
    /\ ahdr' = [ahdr EXCEPT ![t] = FreshNonce(t)]

\* a reply is taken and the request ends: returned as-is, or ProtocolError
AuthReturn(t, status) ==
    /\ areply' = [areply EXCEPT ![t] = Append(@, status)]
    /\ UNCHANGED <<anc, ahist, ncLog, achal, ahdr>>

\* the request ends without a reply (network error, cancellation, deadline)
AuthAbort == UNCHANGED authVars

\* ------------------------------------------------------- shared plumbing
\* variant: the status check is left out
RaiseForStatus_Never(status) == "none"

\* aiohttp's ClientResponse.raise_for_status: raises for a status of 400 or more
RaiseForStatus(status) ==
    IF status >= 400 THEN "ClientResponseError" ELSE "none"

Is2xx(status) == status >= 200 /\ status < 300

\* ---------------------------------------------------------- stream_events
\* variant: except aiohttp.ClientError instead of except Exception
StreamOutcome_Narrow(exc) ==
    IF exc = "none" THEN "return"
    ELSE IF exc \in {"ClientError", "ClientResponseError"} THEN "ConnectionError"
    ELSE exc

\* variant: the except clause logs the exception and does not raise
StreamOutcome_Swallow(exc) ==
    IF exc = "none" \/ exc \in ExceptionClasses THEN "return" ELSE exc

\* except Exception as exception: raise ConnectionError() from exception
StreamOutcome(exc) ==
    IF exc = "none" THEN "return"
    ELSE IF exc \in ExceptionClasses THEN "ConnectionError"
    ELSE exc

\* variant: no finally clause
StreamFinallyCloses_Leak(resp) == 0

\* finally: if response is not None: response.close()
StreamFinallyCloses(resp) == IF resp.set THEN 1 ELSE 0

\* variant: the handler is invoked only for a chunk that ends an HTTP chunk
HandlerCalls_Rebuffer(item) == IF item[2] THEN <<item[1]>> ELSE <<>>

\* async for data, _ in response.content.iter_chunks(): on_receive(data)
HandlerCalls(item) == <<item[1]>>

\* the call leaves the try block: except clause, finally clause, exit
StreamExit(exc, phase, resp) ==
    /\ spc' = "done"
    /\ sexc' = exc
    /\ sphase' = phase
    /\ soutcome' = StreamOutcome(exc)
    /\ sresp' = resp
    /\ sclosed' = sclosed + StreamFinallyCloses(resp)

\* auth.request returned a response: raise_for_status, then the streaming loop
StreamAfterRequest(status) ==
    LET e == RaiseForStatus(status) IN
    IF e = "none"
    THEN /\ spc' = "reading"
         /\ sresp' = Response(status)
         /\ srv' = "open"
         /\ UNCHANGED <<sclosed, sexc, sphase, soutcome>>
    ELSE /\ StreamExit(e, "establish", Response(status))
         /\ UNCHANGED srv

StreamCall ==
    /\ spc \in {"idle", "done"}
    /\ calls["stream"] + calls["oneoff"] < MaxCalls
    /\ calls' = [calls EXCEPT !["stream"] = @ + 1]
    /\ sresp' = NoResponse
    /\ sclosed' = 0
    /\ srv' = "none"
    /\ wire' = <<>>
    /\ delivered' = <<>>
    /\ handled' = <<>>
    /\ sexc' = "none"
    /\ sphase' = "none"
    /\ IF creds
       THEN /\ sreqs' = 1
            /\ AuthBegin("stream")
            /\ spc' = "probe"
            /\ soutcome' = "none"
       ELSE /\ sreqs' = 0
            /\ spc' = "done"
            /\ soutcome' = "return"
            /\ UNCHANGED authVars
    /\ UNCHANGED creds
    /\ UNCHANGED <<oneoffVars, funVars, motion>>

StreamProbeReply ==
    /\ spc = "probe"
    /\ \E reply \in ProbeReplies :
         LET d == AuthDecide(reply) IN
         \/ /\ d = "return"
            /\ AuthReturn("stream", reply.status)
            /\ StreamAfterRequest(reply.status)
         \/ /\ d = "ProtocolError"
            /\ AuthReturn("stream", reply.status)
            /\ StreamExit("ProtocolError", "establish", NoResponse)
            /\ UNCHANGED srv
         \/ /\ d = "reissue"
            /\ AuthReissue("stream", reply.status, reply.qop)
            /\ spc' = "reissue"
            /\ UNCHANGED <<sresp, sclosed, srv, sexc, sphase, soutcome>>
    /\ UNCHANGED <<creds, calls, sreqs, wire, delivered, handled>>
    /\ UNCHANGED <<oneoffVars, funVars, motion>>

StreamReissueReply ==
    /\ spc = "reissue"
    /\ \E status \in Statuses :
         IF AuthAfterReissue(status) = "retry" /\ Len(ahist["stream"]) < MaxExchanges
         THEN /\ AuthReissue("stream", status, FALSE)
              /\ UNCHANGED <<spc, sresp, sclosed, srv, sexc, sphase, soutcome>>
         ELSE /\ AuthReturn("stream", status)
              /\ StreamAfterRequest(status)
    /\ UNCHANGED <<creds, calls, sreqs, wire, delivered, handled>>
    /\ UNCHANGED <<oneoffVars, funVars, motion>>

\* network errors of either exchange propagate unchanged out of auth.request
StreamRequestFails ==
    /\ spc \in {"probe", "reissue"}
    /\ \E e \in TransportErrors \cup {"OtherError"} :
         StreamExit(e, "establish", NoResponse)
    /\ AuthAbort
    /\ UNCHANGED <<creds, calls, sreqs, srv, wire, delivered, handled>>
    /\ UNCHANGED <<oneoffVars, funVars, motion>>

\* the task is cancelled while suspended at an await of the call
StreamCancel ==
    /\ spc \in {"probe", "reissue", "reading"}
    /\ StreamExit("CancelledError",
                  IF spc = "reading" THEN "read" ELSE "establish", sresp)
    /\ AuthAbort
    /\ UNCHANGED <<creds, calls, sreqs, srv, wire, delivered, handled>>
    /\ UNCHANGED <<oneoffVars, funVars, motion>>

\* the camera pushes a chunk: (data, end_of_http_chunk)
ServerChunk ==
    /\ spc \in {"reading", "handling"}
    /\ srv = "open"
    /\ Len(delivered) + Len(wire) < MaxChunks
    /\ \E c \in Chunks : wire' = Append(wire, c)
    /\ UNCHANGED <<creds, calls, authVars, spc, sreqs, sresp, sclosed, srv,
                   delivered, handled, sexc, sphase, soutcome>>
    /\ UNCHANGED <<oneoffVars, funVars, motion>>

\* the camera ends the chunked body
ServerEnd ==
    /\ spc \in {"reading", "handling"}
    /\ srv = "open"
    /\ srv' = "eof"
    /\ UNCHANGED <<creds, calls, authVars, spc, sreqs, sresp, sclosed, wire,
                   delivered, handled, sexc, sphase, soutcome>>
    /\ UNCHANGED <<oneoffVars, funVars, motion>>

\* the connection breaks
ServerFail ==
    /\ spc \in {"reading", "handling"}
    /\ srv = "open"
    /\ srv' = "error"
    /\ UNCHANGED <<creds, calls, authVars, spc, sreqs, sresp, sclosed, wire,
                   delivered, handled, sexc, sphase, soutcome>>
    /\ UNCHANGED <<oneoffVars, funVars, motion>>

\* variant: every chunk is read through a new auth.request
StreamReadChunk_Reauth ==
    /\ spc = "reading"
    /\ wire # <<>>
    /\ delivered' = Append(delivered, Head(wire))
    /\ wire' = Tail(wire)
    /\ spc' = "handling"
    /\ sreqs' = sreqs + 1
    /\ UNCHANGED <<creds, calls, authVars, sresp, sclosed, srv, handled,
                   sexc, sphase, soutcome>>
    /\ UNCHANGED <<oneoffVars, funVars, motion>>

\* iter_chunks() yields the next chunk
StreamReadChunk ==
    /\ spc = "reading"
    /\ wire # <<>>
    /\ delivered' = Append(delivered, Head(wire))
    /\ wire' = Tail(wire)
    /\ spc' = "handling"
    /\ UNCHANGED <<creds, calls, authVars, sreqs, sresp, sclosed, srv, handled,
                   sexc, sphase, soutcome>>
    /\ UNCHANGED <<oneoffVars, funVars, motion>>

\* on_receive(data), then back to the iterator
StreamHandle ==
    /\ spc = "handling"
    /\ handled' = handled \o HandlerCalls(delivered[Len(delivered)])
    /\ \E raises \in BOOLEAN :
         IF raises
         THEN StreamExit("OtherError", "handler", sresp)
         ELSE /\ spc' = "reading"
              /\ UNCHANGED <<sresp, sclosed, sexc, sphase, soutcome>>
    /\ UNCHANGED <<creds, calls, authVars, sreqs, srv, wire, delivered>>
    /\ UNCHANGED <<oneoffVars, funVars, motion>>

\* iter_chunks() is exhausted: the loop ends and the call returns
StreamReadEnd ==
    /\ spc = "reading"
    /\ wire = <<>>
    /\ srv = "eof"
    /\ StreamExit("none", "none", sresp)
    /\ UNCHANGED <<creds, calls, authVars, sreqs, srv, wire, delivered, handled>>
    /\ UNCHANGED <<oneoffVars, funVars, motion>>

\* reading the next chunk raises
StreamReadFails ==
    /\ spc = "reading"
    /\ wire = <<>>
    /\ srv = "error"
    /\ \E e \in {"ClientError", "OtherError"} : StreamExit(e, "read", sresp)
    /\ UNCHANGED <<creds, calls, authVars, sreqs, srv, wire, delivered, handled>>
    /\ UNCHANGED <<oneoffVars, funVars, motion>>

\* the steps of the stream_events coroutine itself
StreamStep ==
    \/ StreamProbeReply
    \/ StreamReissueReply
    \/ StreamRequestFails
    \/ StreamReadChunk
    \/ StreamHandle
    \/ StreamReadEnd
    \/ StreamReadFails

\* ------------------------------------------------ parse_dahua_api_response
\* position of the first c in s, 0 when s holds none
RECURSIVE IndexOf(_, _, _)
IndexOf(s, c, i) ==
    IF i > Len(s) THEN 0
    ELSE IF s[i] = c THEN i
    ELSE IndexOf(s, c, i + 1)

\* the first position at or after i that holds a line boundary, 0 if none
RECURSIVE IndexOfBreak(_, _)
IndexOfBreak(s, i) ==
    IF i > Len(s) THEN 0
    ELSE IF s[i] \in {NL, CR} THEN i
    ELSE IndexOfBreak(s, i + 1)

\* data.splitlines(): "\n", "\r" and "\r\n" each end a line, the line keeps
\* no terminator, and no empty line follows a final terminator
RECURSIVE SplitLines(_)
SplitLines(s) ==
    IF s = <<>> THEN <<>>
    ELSE LET i == IndexOfBreak(s, 1) IN
         IF i = 0 THEN <<s>>
         ELSE LET j == IF s[i] = CR /\ i < Len(s) /\ s[i + 1] = NL
                       THEN i + 2 ELSE i + 1
              IN  <<SubSeq(s, 1, i - 1)>> \o SplitLines(SubSeq(s, j, Len(s)))

\* line.split("="): a split at every "="
SplitFirstEq_Every(line) ==
    LET i == IndexOf(line, "=", 1) IN
    IF i = 0 THEN <<line>>
    ELSE LET rest == SubSeq(line, i + 1, Len(line))
             k == IndexOf(rest, "=", 1)
         IN  IF k = 0 THEN <<SubSeq(line, 1, i - 1), rest>>
             ELSE <<SubSeq(line, 1, i - 1), SubSeq(rest, 1, k - 1),
                    SubSeq(rest, k + 1, Len(rest))>>

\* line.split("=", 1)
SplitFirstEq(line) ==
    LET i == IndexOf(line, "=", 1) IN
    IF i = 0 THEN <<line>>
    ELSE <<SubSeq(line, 1, i - 1), SubSeq(line, i + 1, Len(line))>>

\* data_dict[key] = value: a dict as its set of <<key, value>> items
DictPut(d, k, v) == {p \in d : p[1] # k} \cup {<<k, v>>}

RECURSIVE ParseLines(_, _)
ParseLines(lines, d) ==
    IF lines = <<>> THEN d
    ELSE LET line == Head(lines)
             parts == SplitFirstEq(line)
         IN  ParseLines(Tail(lines),
                        IF Len(parts) = 2
                        THEN DictPut(d, parts[1], parts[2])
                        ELSE DictPut(d, parts[1], line))

parse_dahua_api_response(data) == ParseLines(SplitLines(data), {})

\* ---------------------------------------------------------- get, get_bytes
Pending == [type |-> "pending", dict |-> {}, bytes |-> <<>>]
NoneValue == [type |-> "None", dict |-> {}, bytes |-> <<>>]
DictValue(d) == [type |-> "dict", dict |-> d, bytes |-> <<>>]
BytesValue(b) == [type |-> "bytes", dict |-> {}, bytes |-> b]

\* variant: get logs transport errors the way get_bytes does
GetRaises_Swallow(exc) ==
    IF exc \in ExceptionClasses \cup {"none"} THEN "none" ELSE exc

\* get: the except clauses, in order; the exception that reaches the caller
GetRaises(exc) ==
    IF exc = "TimeoutError" THEN "none"
    ELSE IF exc \in ParseErrors THEN "none"
    ELSE IF exc \in TransportErrors \cup {"ClientResponseError"} THEN exc
    ELSE IF exc \in ExceptionClasses THEN "none"
    ELSE exc

\* get: the value returned: the parsed body from inside the try block, and
\* None when an except clause logged the exception and the function fell off
\* its end
GetReturns(exc, body) ==
    IF exc = "none" THEN DictValue(parse_dahua_api_response(body))
    ELSE IF GetRaises(exc) = "none" THEN NoneValue
    ELSE Pending

\* get_bytes: every except clause logs; only a non-Exception gets through
GetBytesRaises(exc) ==
    IF exc \in ExceptionClasses \cup {"none"} THEN "none" ELSE exc

GetBytesReturns(exc, body) ==
    IF exc = "none" THEN BytesValue(body)
    ELSE IF GetBytesRaises(exc) = "none" THEN NoneValue
    ELSE Pending

\* "OK" in value, value a dict: membership among its keys
HasKey(d, k) == \E p \in d : p[1] = k

\* variant: only the upper-case spelling is looked for
\* a set operation that turns a failure of the fetch into its own error
SetConfigRaises_OwnError(fraised, fvalue) ==
    IF fraised # "none" THEN "Exception"
    ELSE IF fvalue.type # "dict" THEN "TypeError"
    ELSE IF HasKey(fvalue.dict, <<"O", "K">>) \/ HasKey(fvalue.dict, <<"o", "k">>)
         THEN "none"
    ELSE "Exception"

SetConfigRaises_UpperOnly(fraised, fvalue) ==
    IF fraised # "none" THEN fraised
    ELSE IF fvalue.type # "dict" THEN "TypeError"
    ELSE IF HasKey(fvalue.dict, <<"O", "K">>) THEN "none"
    ELSE "Exception"

\* async_set_video_profile_mode, async_enable_channel_title,
\* async_enable_time_overlay after value = await self.get(url):
\*   if "OK" not in value and "ok" not in value: raise Exception(...)
\* an exception of get passes through; the test on None raises TypeError
SetConfigRaises(fraised, fvalue) ==
    IF fraised # "none" THEN fraised
    ELSE IF fvalue.type # "dict" THEN "TypeError"
    ELSE IF HasKey(fvalue.dict, <<"O", "K">>) \/ HasKey(fvalue.dict, <<"o", "k">>)
         THEN "none"
    ELSE "Exception"

\* a set-configuration operation that does not raise returns None
SetConfigReturns(fraised, fvalue) ==
    IF SetConfigRaises(fraised, fvalue) = "none" THEN NoneValue ELSE Pending

\* a close that follows raise_for_status instead of sitting in a finally clause
OneOffFinallyCloses_OnSuccess(resp) ==
    IF resp.set /\ resp.status < 400 THEN 1 ELSE 0

\* finally: if response is not None: response.close()
OneOffFinallyCloses(resp) == IF resp.set THEN 1 ELSE 0

\* the call leaves the try block: finally clause, except clauses, exit
OneOffExit(exc, resp, body) ==
    /\ opc' = "done"
    /\ oexc' = exc
    /\ oresp' = resp
    /\ oclosed' = oclosed + OneOffFinallyCloses(resp)
    /\ obody' = body
    /\ LET fraised == IF okind = "get_bytes" THEN GetBytesRaises(exc)
                       ELSE GetRaises(exc)
           fvalue == IF okind = "get_bytes" THEN GetBytesReturns(exc, body)
                      ELSE GetReturns(exc, body)
       IN  /\ ofetch' = fvalue
           /\ oraised' = IF okind = "set" THEN SetConfigRaises(fraised, fvalue)
                          ELSE fraised
           /\ oret' = IF okind = "set" THEN SetConfigReturns(fraised, fvalue)
                       ELSE fvalue

\* auth.request returned a response: raise_for_status, then the body is awaited
OneOffAfterRequest(status) ==
    LET e == RaiseForStatus(status) IN
    IF e = "none"
    THEN /\ opc' = "body"
         /\ oresp' = Response(status)
         /\ UNCHANGED <<oclosed, oexc, oraised, oret, ofetch, obody>>
    ELSE OneOffExit(e, Response(status), <<>>)

OneOffCall ==
    /\ opc \in {"idle", "done"}
    /\ calls["stream"] + calls["oneoff"] < MaxCalls
    /\ calls' = [calls EXCEPT !["oneoff"] = @ + 1]
    /\ \E k \in {"get", "get_bytes", "set"} : okind' = k
    /\ AuthBegin("oneoff")
    /\ opc' = "probe"
    /\ oresp' = NoResponse
    /\ oclosed' = 0
    /\ oexc' = "none"
    /\ oraised' = "none"
    /\ oret' = Pending
    /\ ofetch' = Pending
    /\ obody' = <<>>
    /\ UNCHANGED <<creds, streamVars, funVars, motion>>

OneOffProbeReply ==
    /\ opc = "probe"
    /\ \E reply \in ProbeReplies :
         LET d == AuthDecide(reply) IN
         \/ /\ d = "return"
            /\ AuthReturn("oneoff", reply.status)
            /\ OneOffAfterRequest(reply.status)
         \/ /\ d = "ProtocolError"
            /\ AuthReturn("oneoff", reply.status)
            /\ OneOffExit("ProtocolError", NoResponse, <<>>)
         \/ /\ d = "reissue"
            /\ AuthReissue("oneoff", reply.status, reply.qop)
            /\ opc' = "reissue"
            /\ UNCHANGED <<oresp, oclosed, oexc, oraised, oret, ofetch, obody>>
    /\ UNCHANGED <<creds, calls, okind, streamVars, funVars, motion>>

OneOffReissueReply ==
    /\ opc = "reissue"
    /\ \E status \in Statuses :
         IF AuthAfterReissue(status) = "retry" /\ Len(ahist["oneoff"]) < MaxExchanges
         THEN /\ AuthReissue("oneoff", status, FALSE)
              /\ UNCHANGED <<opc, oresp, oclosed, oexc, oraised, oret, ofetch, obody>>
         ELSE /\ AuthReturn("oneoff", status)
              /\ OneOffAfterRequest(status)
    /\ UNCHANGED <<creds, calls, okind, streamVars, funVars, motion>>

\* network errors of either exchange propagate unchanged out of auth.request
OneOffRequestFails ==
    /\ opc \in {"probe", "reissue"}
    /\ \E e \in TransportErrors \cup {"OtherError"} :
         OneOffExit(e, NoResponse, <<>>)
    /\ AuthAbort
    /\ UNCHANGED <<creds, calls, okind, streamVars, funVars, motion>>

\* a client that keeps one response for all its calls: the one-off call's
\* finally clause closes the subscription's response as well
OneOffBody_SharedResponse ==
    /\ opc = "body"
    /\ \E body \in Bodies : OneOffExit("none", oresp, body)
    /\ sclosed' = sclosed + (IF sresp.set THEN 1 ELSE 0)
    /\ UNCHANGED <<spc, sreqs, sresp, srv, wire, delivered, handled, sexc,
                   sphase, soutcome>>
    /\ UNCHANGED <<creds, calls, okind, authVars, funVars, motion>>

\* await response.text() / await response.read() completes with the body
OneOffBody ==
    /\ opc = "body"
    /\ \E body \in Bodies : OneOffExit("none", oresp, body)
    /\ UNCHANGED <<creds, calls, okind, authVars, streamVars, funVars, motion>>

\* reading or decoding the body raises
OneOffBodyFails ==
    /\ opc = "body"
    /\ \E e \in TransportErrors \cup {"OtherError"} : OneOffExit(e, oresp, <<>>)
    /\ UNCHANGED <<creds, calls, okind, authVars, streamVars, funVars, motion>>

\* a deadline that covers auth.request only, not the read of the body
OneOffTimeout_HandshakeOnly ==
    /\ opc \in {"probe", "reissue"}
    /\ OneOffExit("TimeoutError", oresp, <<>>)
    /\ AuthAbort
    /\ UNCHANGED <<creds, calls, okind, streamVars, funVars, motion>>

\* async_timeout.timeout(TIMEOUT_SECONDS) expires while the call is suspended
\* at an await inside it: the await is cancelled, the finally clause runs and
\* the context manager turns the cancellation into asyncio.TimeoutError
OneOffTimeout ==
    /\ opc \in {"probe", "reissue", "body"}
    /\ OneOffExit("TimeoutError", oresp, <<>>)
    /\ AuthAbort
    /\ UNCHANGED <<creds, calls, okind, streamVars, funVars, motion>>

\* ------------------------------------------------ the subscription URL
\* a URL is the sequence of its pieces; an event code is one piece
Base == "http://camera:80"
EventCodes == {"VideoMotion", "AlarmLocal", "All"}

\* ";".join(events)
RECURSIVE JoinCodes_Semicolon(_)
JoinCodes_Semicolon(events) ==
    IF events = <<>> THEN <<>>
    ELSE IF Len(events) = 1 THEN events
    ELSE <<Head(events), ";">> \o JoinCodes_Semicolon(Tail(events))

\* ",".join(events)
RECURSIVE JoinCodes(_)
JoinCodes(events) ==
    IF events = <<>> THEN <<>>
    ELSE IF Len(events) = 1 THEN events
    ELSE <<Head(events), ",">> \o JoinCodes(Tail(events))

\* "{0}/cgi-bin/eventManager.cgi?action=attach&codes=[{1}]&heartbeat=2"
StreamUrl(events) ==
    <<Base, "/cgi-bin/eventManager.cgi?", "action=attach", "&", "codes=[">>
        \o JoinCodes(events) \o <<"]", "&", "heartbeat=2">>

\* ------------------------------------------- to_subtype, to_stream_name
STREAM_MAIN == "Main"
STREAM_SUB == "Sub"

to_subtype(stream_name) ==
    IF stream_name = STREAM_MAIN THEN 0
    ELSE IF stream_name = STREAM_SUB THEN 1
    ELSE 0

\* Main for 0, Sub for anything else
to_stream_name_ZeroIsMain(subtype) ==
    IF subtype = 0 THEN STREAM_MAIN ELSE STREAM_SUB

to_stream_name(subtype) ==
    IF subtype = 1 THEN STREAM_SUB ELSE STREAM_MAIN

\* ------------------------------------------------ the helpers, applied
\* every sequence over S of length at most n
SeqsUpTo(S, n) == UNION {[1..k -> S] : k \in 0..n}

\* "key1=value1\nkey2=value2" and "standalonekey"
TwoPairsText ==
    <<"k","e","y","1","=","v","a","l","u","e","1",NL,
      "k","e","y","2","=","v","a","l","u","e","2">>
StandaloneText == <<"s","t","a","n","d","a","l","o","n","e","k","e","y">>

TextAlphabet == {"k", "=", NL, CR}
Texts == SeqsUpTo(TextAlphabet, MaxTextLen) \cup {TwoPairsText, StandaloneText}
EventLists == SeqsUpTo(EventCodes, MaxEvents)
StreamNames == {STREAM_MAIN, STREAM_SUB, "Third", "main", ""}
Subtypes == (0 - MaxSubtype)..MaxSubtype

ApplyParse ==
    /\ fname = "parse" /\ fstage = "input"
    /\ fres' = parse_dahua_api_response(farg)
    /\ fstage' = "applied"
    /\ UNCHANGED <<fname, farg, fback, clientVars, motion>>

ApplyStreamUrl ==
    /\ fname = "url" /\ fstage = "input"
    /\ fres' = StreamUrl(farg)
    /\ fstage' = "applied"
    /\ UNCHANGED <<fname, farg, fback, clientVars, motion>>

ApplyToSubtype ==
    /\ fname = "to_subtype" /\ fstage = "input"
    /\ fres' = to_subtype(farg)
    /\ fstage' = "applied"
    /\ UNCHANGED <<fname, farg, fback, clientVars, motion>>

ApplyToStreamName ==
    \/ /\ fname = "to_stream_name" /\ fstage = "input"
       /\ fres' = to_stream_name(farg)
       /\ fstage' = "applied"
       /\ UNCHANGED <<fname, farg, fback, clientVars, motion>>
    \/ /\ fname = "to_subtype" /\ fstage = "applied"
       /\ fback' = to_stream_name(fres)
       /\ fstage' = "back"
       /\ UNCHANGED <<fname, farg, fres, clientVars, motion>>

\* ------------------------------------------------ enable_motion_detection
\* str(enabled).lower()
LowerBool(enabled) == IF enabled THEN "true" ELSE "false"

\* the URL tried first; a URL is the sequence of its pieces
MotionUrlV3(enabled) ==
    <<"/cgi-bin/configManager.cgi?action=setConfig", "&MotionDetect[0].Enable=",
      LowerBool(enabled), "&MotionDetect[0].DetectVersion=V3.0">>

\* the URL for older cameras
MotionUrl(enabled) ==
    <<"/cgi-bin/configManager.cgi?action=setConfig", "&MotionDetect[0].Enable=",
      LowerBool(enabled)>>

\* no call of enable_motion_detection yet
MotionIdle ==
    [pc |-> "idle", enabled |-> FALSE, urls |-> <<>>,
     first |-> Pending, second |-> Pending, ret |-> Pending, raised |-> "none"]

\* how the try block of a get can end: with a body read, or with an exception
GetEndings ==
    {<<"none", b>> : b \in Bodies}
        \cup {<<e, <<>>>> : e \in ExceptionClasses \cup BaseOnly}

\* the call starts and awaits get(url) for the V3.0 URL
MotionCall ==
    /\ motion.pc \in {"idle", "done"}
    /\ \E enabled \in BOOLEAN :
         motion' = [MotionIdle EXCEPT !.pc = "first", !.enabled = enabled,
                                      !.urls = <<MotionUrlV3(enabled)>>]
    /\ UNCHANGED <<clientVars, funVars>>

\* the first get ends: "OK" in response, then return or the second get
MotionFirstGet ==
    /\ motion.pc = "first"
    /\ \E g \in GetEndings :
         LET raised == GetRaises(g[1])
             value == GetReturns(g[1], g[2])
         IN  motion' =
               IF raised # "none"
               THEN [motion EXCEPT !.pc = "done", !.raised = raised]
               ELSE IF value.type # "dict"
               THEN [motion EXCEPT !.pc = "done", !.first = value,
                                   !.raised = "TypeError"]
               ELSE IF HasKey(value.dict, <<"O", "K">>)
               THEN [motion EXCEPT !.pc = "done", !.first = value,
                                   !.ret = value]
               ELSE [motion EXCEPT !.pc = "fallback", !.first = value,
                                   !.urls = Append(@, MotionUrl(motion.enabled))]
    /\ UNCHANGED <<clientVars, funVars>>

\* the second get ends: its response is returned as it is
MotionFallbackGet ==
    /\ motion.pc = "fallback"
    /\ \E g \in GetEndings :
         LET raised == GetRaises(g[1])
             value == GetReturns(g[1], g[2])
         IN  motion' =
               IF raised # "none"
               THEN [motion EXCEPT !.pc = "done", !.raised = raised]
               ELSE [motion EXCEPT !.pc = "done", !.second = value,
                                   !.ret = value]
    /\ UNCHANGED <<clientVars, funVars>>

\* ------------------------------------------------------------------ system
\* no helper is being applied
FunIdle ==
    /\ fname = "none"
    /\ farg = <<>>
    /\ fstage = "input"
    /\ fres = <<>>
    /\ fback = <<>>

\* the client as constructed: no call made yet
ClientInit ==
    /\ creds \in BOOLEAN
    /\ calls = [t \in Tasks |-> 0]
    /\ anc = [t \in Tasks |-> 0]
    /\ ahist = [t \in Tasks |-> <<>>]
    /\ areply = [t \in Tasks |-> <<>>]
    /\ ncLog = <<>>
    /\ achal = [t \in Tasks |-> NoNonce]
    /\ ahdr = [t \in Tasks |-> NoNonce]
    /\ spc = "idle"
    /\ sreqs = 0
    /\ sresp = NoResponse
    /\ sclosed = 0
    /\ srv = "none"
    /\ wire = <<>>
    /\ delivered = <<>>
    /\ handled = <<>>
    /\ sexc = "none"
    /\ sphase = "none"
    /\ soutcome = "none"
    /\ okind = "none"
    /\ opc = "idle"
    /\ oresp = NoResponse
    /\ oclosed = 0
    /\ oexc = "none"
    /\ oraised = "none"
    /\ oret = Pending
    /\ ofetch = Pending
    /\ obody = <<>>

Init == ClientInit /\ FunIdle /\ motion = MotionIdle

Next ==
    \/ StreamCall
    \/ StreamProbeReply
    \/ StreamReissueReply
    \/ StreamRequestFails
    \/ StreamCancel
    \/ ServerChunk
    \/ ServerEnd
    \/ ServerFail
    \/ StreamReadChunk
    \/ StreamHandle
    \/ StreamReadEnd
    \/ StreamReadFails
    \/ OneOffCall
    \/ OneOffProbeReply
    \/ OneOffReissueReply
    \/ OneOffRequestFails
    \/ OneOffBody
    \/ OneOffBodyFails
    \/ OneOffTimeout

Spec == Init /\ [][Next]_vars

\* the subscription and the camera's side of it
StreamNext ==
    \/ StreamCall
    \/ StreamProbeReply
    \/ StreamReissueReply
    \/ StreamRequestFails
    \/ StreamCancel
    \/ ServerChunk
    \/ ServerEnd
    \/ ServerFail
    \/ StreamReadChunk
    \/ StreamHandle
    \/ StreamReadEnd
    \/ StreamReadFails

\* the subscription on its own task: the event loop resumes a coroutine whose
\* await has completed, so a step of stream_events that stays possible is
\* taken; nothing obliges the caller to cancel or the camera to send
LiveSpec == Init /\ [][StreamNext]_vars /\ WF_vars(StreamStep)

\* the one-off calls and the camera's answers to them
OneOffNext ==
    \/ OneOffCall
    \/ OneOffProbeReply
    \/ OneOffReissueReply
    \/ OneOffRequestFails
    \/ OneOffBody
    \/ OneOffBodyFails
    \/ OneOffTimeout

\* the one-off calls on their own task: the event loop runs the timer that
\* async_timeout armed, so the deadline expires if the call stays suspended
\* inside it; nothing obliges the camera to answer or to finish a body
OneOffLiveSpec == Init /\ [][OneOffNext]_vars /\ WF_vars(OneOffTimeout)

MotionNext ==
    \/ MotionCall
    \/ MotionFirstGet
    \/ MotionFallbackGet

\* enable_motion_detection, over every way each of its gets can end
MotionSpec == Init /\ [][MotionNext]_vars

\* one helper and one argument for it, not yet applied
FunInit ==
    /\ ClientInit
    /\ motion = MotionIdle
    /\ \/ fname = "parse" /\ farg \in Texts
       \/ fname = "url" /\ farg \in EventLists
       \/ fname = "to_subtype" /\ farg \in StreamNames
       \/ fname = "to_stream_name" /\ farg \in Subtypes
    /\ fstage = "input"
    /\ fres = <<>>
    /\ fback = <<>>

FunNext ==
    \/ ApplyParse
    \/ ApplyStreamUrl
    \/ ApplyToSubtype
    \/ ApplyToStreamName

\* the static helpers, each applied to every argument within the bounds
FunSpec == FunInit /\ [][FunNext]_vars

\* ------------------------------------------------------------------ claims
\* C1: a stream_events call that obtained a response from the Authenticator
\* has closed it exactly once when it exits, however it exits; the response
\* is never closed twice and never left open.
C1_ClosedExactlyOnce ==
    /\ sclosed <= 1
    /\ (spc = "done" /\ sresp.set) => sclosed = 1
    /\ ~sresp.set => sclosed = 0

\* a call cancelled during a read has closed its response once
C1_Witness ==
    /\ spc = "done"
    /\ sresp.set
    /\ sexc = "CancelledError"
    /\ sphase = "read"
    /\ sclosed = 1

\* C2 as stated: every exception raised while establishing the connection or
\* reading chunks reaches the caller as ConnectionError and as nothing else.
C2_Original ==
    (spc = "done" /\ sexc # "none" /\ sphase \in {"establish", "read"})
        => soutcome = "ConnectionError"

\* C2 amended: an exception deriving from Exception raised while establishing
\* the connection or reading chunks reaches the caller as ConnectionError,
\* never unwrapped and never swallowed; asyncio.CancelledError, which does
\* not derive from Exception, reaches the caller as itself.
C2_WrapsExceptions ==
    (spc = "done" /\ sphase \in {"establish", "read"}) =>
        /\ sexc \in ExceptionClasses => soutcome = "ConnectionError"
        /\ sexc \in BaseOnly => soutcome = sexc

\* a socket-level failure of the probe came out as ConnectionError
C2_Witness ==
    /\ spc = "done"
    /\ sphase = "establish"
    /\ sexc = "gaierror"
    /\ soutcome = "ConnectionError"

\* C3 as stated: the handler is never invoked unless the status was checked
\* to be 2xx; with a final status that is not 2xx the handler is invoked zero
\* times and the call fails with ConnectionError (a call that was cancelled
\* is left aside here).
C3_Original ==
    /\ handled # <<>> => (sresp.set /\ Is2xx(sresp.status))
    /\ (spc = "done" /\ sresp.set /\ ~Is2xx(sresp.status)
            /\ sexc # "CancelledError")
           => (handled = <<>> /\ soutcome = "ConnectionError")

\* C3 amended: the handler is never invoked before raise_for_status has
\* passed, which it does for a status below 400; with a final status of 400
\* or more the handler is invoked zero times and the call fails with
\* ConnectionError.
C3_StatusChecked ==
    /\ (handled # <<>> \/ delivered # <<>>) => (sresp.set /\ sresp.status < 400)
    /\ (spc = "done" /\ sresp.set /\ sresp.status >= 400)
           => (handled = <<>> /\ delivered = <<>> /\ soutcome = "ConnectionError")

\* the re-issued request was answered 500: no handler call, ConnectionError
C3_Witness ==
    /\ spc = "done"
    /\ sresp.set
    /\ sresp.status = 500
    /\ Len(ahist["stream"]) = 2
    /\ handled = <<>>
    /\ soutcome = "ConnectionError"

\* C4 as stated: every stream_events call makes exactly one Authenticator
\* request, before any chunk is consumed and none while chunks are read; no
\* call returns without having made it.
C4_Original ==
    /\ sreqs <= 1
    /\ delivered # <<>> => sreqs = 1
    /\ spc = "done" => sreqs = 1

\* C4 amended: a stream_events call on a client whose username and password
\* are both set makes exactly one Authenticator request, before any chunk is
\* consumed and none while chunks are read; on a client whose username or
\* password is None the call returns at once without a request.
C4_OneRequest ==
    /\ sreqs <= 1
    /\ (creds /\ spc # "idle") => sreqs = 1
    /\ spc \in {"reading", "handling"} => sreqs = 1
    /\ delivered # <<>> => (sreqs = 1 /\ spc \notin {"probe", "reissue"})
    /\ (~creds /\ spc = "done") => (sreqs = 0 /\ soutcome = "return")

\* a subscription that consumed every chunk made one request
C4_Witness ==
    /\ creds
    /\ spc = "done"
    /\ Len(handled) = MaxChunks
    /\ sreqs = 1

\* C5: on_receive is invoked once per chunk the transport yields, with that
\* chunk's bytes, in the order yielded, and the next chunk is not read before
\* the handler call for the previous one is over.
C5_OncePerChunkInOrder ==
    /\ Len(handled) = IF spc = "handling" THEN Len(delivered) - 1
                      ELSE Len(delivered)
    /\ \A i \in 1..Len(handled) : handled[i] = delivered[i][1]

\* two different chunks were handled, in the order they were yielded
C5_Witness ==
    /\ Len(handled) >= 2
    /\ handled[1] # handled[2]
    /\ wire = <<>>
    /\ spc = "reading"

\* the transport has ended or failed a stream the call is still consuming
StreamDown == spc \in {"reading", "handling"} /\ srv \in {"eof", "error"}

\* C6 as stated, its part about how the call ends: once the transport has
\* ended or failed the stream, the call ends by returning (only after an end
\* of stream) or by raising ConnectionError, with the response released.
C6_Original ==
    (spc = "done" /\ srv \in {"eof", "error"}) =>
        /\ soutcome \in {"return", "ConnectionError"}
        /\ soutcome = "return" => srv = "eof"
        /\ sclosed = 1

\* C6 amended: whenever the transport ends the stream or fails it, the call
\* eventually terminates, with the response released once, and it terminates
\* by returning normally (only after the transport signalled end of stream and
\* every chunk was handled), by raising ConnectionError, or, when the task is
\* cancelled before it has resumed, by CancelledError.
C6_NeverStopsSilently ==
    StreamDown ~>
        /\ spc = "done"
        /\ sclosed = 1
        /\ soutcome \in {"return", "ConnectionError", "CancelledError"}
        /\ soutcome = "return" =>
               (srv = "eof" /\ wire = <<>> /\ Len(handled) = Len(delivered))
        /\ soutcome = "CancelledError" => sexc = "CancelledError"
        /\ srv = "error" => soutcome # "return"

\* the connection broke after a chunk and the call ended in ConnectionError
C6_Witness ==
    /\ spc = "done"
    /\ srv = "error"
    /\ sphase = "read"
    /\ Len(handled) >= 1
    /\ soutcome = "ConnectionError"
    /\ sclosed = 1

\* C7: when the deadline expires during get, before the probe is answered,
\* between the probe and the re-issue or while the body is read, the call
\* does not raise and returns an empty mapping.
C7_TimeoutEmptyMapping ==
    (opc = "done" /\ okind = "get" /\ oexc = "TimeoutError") =>
        (oraised = "none" /\ oret = DictValue({}))

\* C8: a socket, DNS or client transport failure during get is raised to the
\* caller; the same failure during get_bytes is not raised and the call
\* yields None.
C8_TransportAsymmetry ==
    (opc = "done" /\ oexc \in TransportErrors) =>
        /\ okind = "get" => (oraised = oexc /\ oret = Pending)
        /\ okind = "get_bytes" => (oraised = "none" /\ oret = NoneValue)

\* a DNS failure came out of get
C8_Witness ==
    /\ opc = "done"
    /\ okind = "get"
    /\ oexc = "gaierror"
    /\ oraised = "gaierror"

\* C9: over any sequence of get, get_bytes and stream_events calls on one
\* client the nonce-counts sent form one strictly increasing sequence; the
\* count is never reset between calls.
C9_NonceCountIncreases ==
    \A i, j \in 1..Len(ncLog) : i < j => ncLog[i] < ncLog[j]

\* the response the running call got from auth.request
RespOf(t) == IF t = "stream" THEN sresp ELSE oresp

\* C10: one Authenticator request performs at most two exchanges: one, sent
\* without Authorization, when the first reply is not 401; two when it is 401
\* with a well-formed challenge; the second reply is returned as it is, a 401
\* included, and no third exchange is sent.
C10_AtMostTwoExchanges ==
    \A t \in Tasks :
        /\ Len(ahist[t]) <= 2
        /\ Len(ahist[t]) >= 1 => ~ahist[t][1]
        /\ Len(ahist[t]) = 2 => (ahist[t][2] /\ areply[t][1] = 401)
        /\ RespOf(t).set =>
               /\ Len(areply[t]) = Len(ahist[t])
               /\ RespOf(t).status = areply[t][Len(areply[t])]
               /\ (Len(ahist[t]) = 1) = (areply[t][1] # 401)

\* a second 401 was handed to the caller after two exchanges
C10_Witness ==
    /\ opc = "done"
    /\ oresp.set
    /\ oresp.status = 401
    /\ ahist["oneoff"] = <<FALSE, TRUE>>
    /\ areply["oneoff"] = <<401, 401>>

\* C11: no authentication state is carried from one call to the next: every
\* call starts with a probe that has no Authorization header, and an
\* Authorization header is built only from the challenge the camera gave in
\* answer to that same call's probe.
C11_NoAuthStateCarried ==
    \A t \in Tasks :
        /\ Len(ahist[t]) >= 1 => ~ahist[t][1]
        /\ achal[t] # NoNonce => achal[t] = FreshNonce(t)
        /\ ahdr[t] # NoNonce =>
               /\ ahdr[t] = FreshNonce(t)
               /\ Len(areply[t]) >= 1
               /\ areply[t][1] = 401

\* a second call answered its own challenge after the first had answered one
C11_Witness ==
    /\ calls["oneoff"] = 2
    /\ Len(ncLog) = 2
    /\ ahist["oneoff"] = <<FALSE, TRUE>>
    /\ ahdr["oneoff"] = <<"oneoff", 2>>

\* the text holds the token OK in some letter case
ContainsOKAnyCase(text) ==
    \E i \in 1..(Len(text) - 1) :
        text[i] \in {"O", "o"} /\ text[i + 1] \in {"K", "k"}

LineStarts(text) ==
    {i \in 1..Len(text) :
        \/ i = 1
        \/ text[i - 1] = NL
        \/ text[i - 1] = CR /\ text[i] # NL}

\* the line that starts at position i, without its terminator
LineAt(text, i) ==
    LET ends == {j \in i..Len(text) : text[j] \in {NL, CR}}
        stop == IF ends = {} THEN Len(text) + 1
                ELSE CHOOSE j \in ends : \A k \in ends : j <= k
    IN  SubSeq(text, i, stop - 1)

\* the entry the claim gives a line
EntryOf(line) ==
    LET eqs == {j \in 1..Len(line) : line[j] = "="} IN
    IF eqs = {} THEN <<line, line>>
    ELSE LET e == CHOOSE j \in eqs : \A k \in eqs : j <= k
         IN  <<SubSeq(line, 1, e - 1), SubSeq(line, e + 1, Len(line))>>

\* C13: parse_dahua_api_response maps every line of the body to one entry:
\* a line containing "=" is split at its first "=" into key and value (later
\* "=" stay in the value), a line with no "=" has the whole line as key and
\* as value; the result holds, for every key, the entry of the last line with
\* that key, and nothing else. "key1=value1\nkey2=value2" yields
\* {key1: value1, key2: value2}, "standalonekey" yields
\* {standalonekey: standalonekey}.
C13_ParseLineEntries ==
    (fname = "parse" /\ fstage = "applied") =>
        /\ fres = {EntryOf(LineAt(farg, i)) : i \in
                     {i \in LineStarts(farg) :
                        \A j \in LineStarts(farg) :
                            j > i => EntryOf(LineAt(farg, j))[1]
                                       # EntryOf(LineAt(farg, i))[1]}}
        /\ \A i \in LineStarts(farg) :
               \E p \in fres : p[1] = EntryOf(LineAt(farg, i))[1]
        /\ farg = TwoPairsText =>
               fres = {<<<<"k","e","y","1">>, <<"v","a","l","u","e","1">>>>,
                       <<<<"k","e","y","2">>, <<"v","a","l","u","e","2">>>>}
        /\ farg = StandaloneText => fres = {<<StandaloneText, StandaloneText>>}

\* a line with two "=" has been parsed: its value keeps the second "="
C13_Witness ==
    /\ fname = "parse" /\ fstage = "applied"
    /\ farg = <<"k", "=", "=", "k">>
    /\ fres = {<<<<"k">>, <<"=", "k">>>>}

\* ---- C14
\* C14: the subscription URL built by stream_events embeds the requested
\* event codes comma-joined, in order, inside codes=[...]: the codes
\* VideoMotion, AlarmLocal give codes=[VideoMotion,AlarmLocal] and the single
\* code All gives codes=[All]; the URL always carries action=attach and the
\* fixed heartbeat parameter.
C14_UrlEmbedsCodes ==
    (fname = "url" /\ fstage = "applied") =>
        LET n == Len(farg)
            inner == IF n = 0 THEN 0 ELSE 2 * n - 1
        IN  /\ Len(fres) = 5 + inner + 3
            /\ fres[1] = Base
            /\ fres[3] = "action=attach"
            /\ fres[5] = "codes=["
            /\ \A i \in 1..n : fres[5 + 2 * i - 1] = farg[i]
            /\ \A i \in 1..(n - 1) : fres[5 + 2 * i] = ","
            /\ fres[5 + inner + 1] = "]"
            /\ fres[5 + inner + 3] = "heartbeat=2"
            /\ farg = <<"VideoMotion", "AlarmLocal">> =>
                   SubSeq(fres, 5, 9) =
                       <<"codes=[", "VideoMotion", ",", "AlarmLocal", "]">>
            /\ farg = <<"All">> => SubSeq(fres, 5, 7) = <<"codes=[", "All", "]">>

\* the URL for two codes has been built
C14_Witness ==
    /\ fname = "url" /\ fstage = "applied"
    /\ farg = <<"VideoMotion", "AlarmLocal">>
    /\ fres = <<Base, "/cgi-bin/eventManager.cgi?", "action=attach", "&",
                "codes=[", "VideoMotion", ",", "AlarmLocal", "]", "&",
                "heartbeat=2">>

\* ---- C15
\* C15: to_subtype returns 0 for Main, 1 for Sub and 0 for every other input;
\* to_stream_name returns Sub for 1 and Main for every other input; and
\* to_stream_name(to_subtype(x)) = x for x in {Main, Sub}.
C15_SubtypeRoundTrip ==
    /\ (fname = "to_subtype" /\ fstage \in {"applied", "back"}) =>
           fres = (IF farg = "Sub" THEN 1 ELSE 0)
    /\ (fname = "to_stream_name" /\ fstage = "applied") =>
           fres = (IF farg = 1 THEN "Sub" ELSE "Main")
    /\ (fname = "to_subtype" /\ fstage = "back" /\ farg \in {"Main", "Sub"}) =>
           fback = farg

\* Sub has gone to its subtype and back
C15_Witness ==
    /\ fname = "to_subtype" /\ fstage = "back"
    /\ farg = "Sub" /\ fres = 1 /\ fback = "Sub"

\* ---- C16
\* C16: every one-off call (get, get_bytes) terminates even when the server
\* never answers or never finishes the body: the per-request deadline bounds
\* the whole exchange, both legs of the digest handshake and the body read,
\* so a call suspended at any of them eventually ends.
C16_OneOffTerminates ==
    /\ (opc = "probe") ~> (opc = "done")
    /\ (opc = "reissue") ~> (opc = "done")
    /\ (opc = "body") ~> (opc = "done")

\* the deadline expired while the body was being read
C16_Witness ==
    /\ opc = "done" /\ okind \in {"get", "get_bytes"}
    /\ oexc = "TimeoutError"
    /\ oresp.set

\* ---- C17
\* C17 as stated: when the final status after the digest handshake is not
\* 2xx, a set-configuration operation fails with its operation-specific
\* error, not with a different exception and not with success.
C17_Original ==
    (/\ opc = "done" /\ okind = "set" /\ oresp.set
     /\ oexc \in {"none", "ClientResponseError"}
     /\ ~Is2xx(oresp.status)) =>
        oraised = "Exception"

\* C17: when the final status after the digest handshake is 400 or above, a
\* set-configuration operation fails with the ClientResponseError that
\* raise_for_status raised and get re-raised, never with success and never
\* with its operation-specific error; a final status below 400 passes
\* raise_for_status, 2xx or not, and the body decides between success and the
\* operation-specific error.
C17_HttpErrorSurfaces ==
    (/\ opc = "done" /\ okind = "set" /\ oresp.set
     /\ oexc \in {"none", "ClientResponseError"}) =>
        /\ oresp.status >= 400 =>
               /\ oexc = "ClientResponseError"
               /\ oraised = "ClientResponseError"
               /\ oret = Pending
        /\ oresp.status < 400 =>
               /\ oexc = "none"
               /\ oraised \in {"none", "Exception"}
               /\ oraised = "none" <=>
                      \/ HasKey(parse_dahua_api_response(obody), <<"O", "K">>)
                      \/ HasKey(parse_dahua_api_response(obody), <<"o", "k">>)

\* a set operation whose final status was 500 has failed
C17_Witness ==
    /\ opc = "done" /\ okind = "set"
    /\ oresp.set /\ oresp.status = 500
    /\ oraised = "ClientResponseError"

\* ---- C18
\* C18: when the per-request deadline expires during a set-configuration
\* operation, the underlying fetch resolves to an empty result and the
\* operation ends with its operation-specific error for the missing OK token;
\* the timeout never surfaces to the caller as any other kind of exception.
C18_TimeoutOwnError ==
    (opc = "done" /\ okind = "set" /\ oexc = "TimeoutError") =>
        /\ ofetch = DictValue({})
        /\ oraised = "Exception"

\* ---- C19
\* C19: a one-off call running concurrently with an active subscription on
\* the same client cannot disturb it: whatever step the one-off call takes
\* (success, timeout, failure, closing its own response), the subscription's
\* response, its close count, the chunks it was given and the handler's calls
\* stay as they were, so the response of a subscription that is reading is
\* never closed and the handler's calls remain the chunks delivered, in order;
\* likewise no step of the subscription changes the one-off call's response
\* or closes it.
C19_CallsDoNotInterfere ==
    /\ [][(oneoffVars' # oneoffVars) => UNCHANGED streamVars]_vars
    /\ [][(streamVars' # streamVars) => UNCHANGED oneoffVars]_vars
    /\ [](spc \in {"reading", "handling"} => sclosed = 0)
    /\ [](opc \in {"probe", "reissue", "body"} => oclosed = 0)
    /\ [](/\ Len(handled) <= Len(delivered)
          /\ \A i \in 1..Len(handled) : handled[i] = delivered[i][1])

\* a one-off call has ended and closed its response while the subscription,
\* its response open, has had a chunk handled and is reading on
C19_Witness ==
    /\ opc = "done" /\ oresp.set /\ oclosed = 1
    /\ spc = "reading" /\ sresp.set /\ sclosed = 0
    /\ Len(handled) >= 1

\* ---- C20
\* C20: in get and get_bytes every response obtained from the Authenticator
\* is closed exactly once before the call returns or raises, on every path
\* (success, non-2xx status, failure while reading or decoding the body,
\* deadline expiry after the response was obtained); when no response was
\* obtained, close is never called.
C20_OneOffClosedExactlyOnce ==
    /\ oclosed <= 1
    /\ (opc = "done" /\ oresp.set) => oclosed = 1
    /\ ~oresp.set => oclosed = 0

\* the deadline expired during the body read and the response was closed once
C20_Witness ==
    /\ opc = "done" /\ okind \in {"get", "get_bytes"}
    /\ oresp.set /\ Is2xx(oresp.status)
    /\ oexc = "TimeoutError"
    /\ oclosed = 1

\* ---- C21
\* "OK" in response, for what get returned
ContainsOK(value) == value.type = "dict" /\ HasKey(value.dict, <<"O", "K">>)

\* C21: enable_motion_detection issues at most two GETs, in a fixed order:
\* first the V3.0 URL; the fallback URL without DetectVersion is requested if
\* and only if the first decoded response does not contain OK. It returns the
\* first response when that contains OK and otherwise the fallback's response,
\* and it never issues the fallback after a first response that contains OK.
C21_FallbackIffNoOK ==
    /\ Len(motion.urls) <= 2
    /\ motion.pc # "idle" => motion.urls[1] = MotionUrlV3(motion.enabled)
    /\ Len(motion.urls) = 2 => motion.urls[2] = MotionUrl(motion.enabled)
    /\ (motion.pc \in {"fallback", "done"} /\ motion.first # Pending) =>
           /\ Len(motion.urls) = 2 <=> ~ContainsOK(motion.first)
           /\ motion.pc = "done" /\ ContainsOK(motion.first) =>
                  motion.raised = "none" /\ motion.ret = motion.first
           /\ (/\ motion.pc = "done" /\ ~ContainsOK(motion.first)
               /\ motion.second # Pending) =>
                  motion.raised = "none" /\ motion.ret = motion.second

====
